---- MODULE Spec2Model ----
(***************************************************************************)
(* Model of the PredictionZ recommendation engine V2                       *)
(* (src/services/recommendation_engine_v2.py): the UserProfile and its     *)
(* learning update, the seven signal scorers, the weighted total, the      *)
(* ranking with MMR re-ranking and the trending list.                      *)
(*                                                                         *)
(* Numbers.  Python floats are modelled as fixed-point integers with four  *)
(* decimals: the integer n stands for n / ONE.  Products and quotients are *)
(* floored to four decimals; the inputs of the model are chosen so that    *)
(* the values the engine computes on them are exact in this form.  Dollar  *)
(* amounts (volume, liquidity) and embedding components are whole numbers  *)
(* and are kept as plain integers.                                         *)
(*                                                                         *)
(* Calls.  Every operation of the engine is one atomic action (the code    *)
(* has no suspension point).  A call leaves its arguments and its return   *)
(* value in `call`; the caller then takes the result (TakeResult) and is   *)
(* free to make the next call.                                             *)
(***************************************************************************)
EXTENDS Integers, Sequences, FiniteSets, TLC

VARIABLES profile, weights, pc, call

vars == <<profile, weights, pc, call>>

(***************************************************************************)
(* Fixed-point arithmetic.                                                 *)
(***************************************************************************)
ONE == 10000

Min(a, b) == IF a <= b THEN a ELSE b
Max(a, b) == IF a >= b THEN a ELSE b
Abs(a) == IF a < 0 THEN 0 - a ELSE a

\* a * b for fixed-point a, b: floor(a * b / ONE), computed in parts so that
\* the intermediate products stay within TLC's 32-bit integers.
Mul(a, b) ==
    (a \div ONE) * b + (a % ONE) * (b \div ONE) + ((a % ONE) * (b % ONE)) \div ONE

\* The fraction digits of r / b (0 <= r < b), one decimal digit at a time.
RECURSIVE DivFrac(_, _, _)
DivFrac(r, b, scale) ==
    IF scale = 1 THEN 0
    ELSE ((r * 10) \div b) * (scale \div 10)
         + DivFrac((r * 10) % b, b, scale \div 10)

\* a / b as a fixed-point value, for a and b of one scale (b > 0):
\* floor(a * ONE / b) by long division.
Div(a, b) == (a \div b) * ONE + DivFrac(a % b, b, ONE)

\* round(x, 2): to the nearest hundredth, halves to the even hundredth.
Round2(x) ==
    LET step == ONE \div 100
        low == (x \div step) * step
        rest == x - low
    IN  IF 2 * rest < step THEN low
        ELSE IF 2 * rest > step THEN low + step
        ELSE IF (low \div step) % 2 = 0 THEN low ELSE low + step

\* The square of the fixed-point x does not exceed the fixed-point n
\* (compared exactly: x * x <= n * ONE, without forming the products).
SquareAtMost(x, n) ==
    LET q == x \div ONE
        r == x % ONE
    IN  q * q * ONE + 2 * q * r + (r * r + ONE - 1) \div ONE <= n

\* The largest fixed-point x in [lo, hi) whose square does not exceed the
\* fixed-point n, by bisection.
RECURSIVE SqrtIn(_, _, _)
SqrtIn(n, lo, hi) ==
    IF hi - lo <= 1 THEN lo
    ELSE LET mid == (lo + hi) \div 2
         IN  IF SquareAtMost(mid, n) THEN SqrtIn(n, mid, hi)
             ELSE SqrtIn(n, lo, mid)

\* math.sqrt(n) of a whole number n as a fixed-point value: like the double
\* it stands for, it is the root rounded to the precision of the
\* representation, exact only when the root is representable.
Sqrt(n) == SqrtIn(n * ONE, 0, 200 * ONE)

\* A whole number as a fixed-point value.
Fix(n) == n * ONE

\* 0.1, 0.05, 2.0 ... of the source, written as numerator over 10^k.
Dec(n, d) == (n * ONE) \div d

RECURSIVE SumSeq(_)
SumSeq(s) == IF s = <<>> THEN 0 ELSE Head(s) + SumSeq(Tail(s))

Range(s) == {s[i] : i \in DOMAIN s}

(***************************************************************************)
(* Bounds of the model.                                                    *)
(***************************************************************************)
\* longest interaction history explored
MaxHistory == 2

(***************************************************************************)
(* UserHistoryEvent and UserProfile.                                       *)
(***************************************************************************)
UserHistoryEvent(market_id, action, category, risk_level, engagement_score) ==
    [market_id |-> market_id, action |-> action, category |-> category,
     risk_level |-> risk_level, timestamp |-> 0,
     engagement_score |-> engagement_score]

\* The interaction events the callers send.
Events ==
    { UserHistoryEvent("m1", "click", "crypto", "degen", Fix(1)),
      UserHistoryEvent("m3", "bet", "sports", "safe", Fix(40)),
      UserHistoryEvent("m1", "view", "", "medium", Fix(1)),
      UserHistoryEvent("m2", "view", "crypto", "yolo", Dec(5, 10)),
      UserHistoryEvent("m2", "bet", "crypto", "degen", Fix(40)),
      UserHistoryEvent("m4", "view", "sports", "safe", Fix(-2)) }

\* None, and the empty list and the empty dict: the engine only ever tests the
\* truth value of an optional list, dict or profile, and all three are falsy.
None == <<>>

\* None for an optional string (sentiment_preference): falsy like "".
NoString == ""

\* dict.get(key, default)
Get(d, key, default) == IF key \in DOMAIN d THEN d[key] ELSE default

\* d[key] = value
Put(d, key, value) ==
    [x \in DOMAIN d \cup {key} |-> IF x = key THEN value ELSE d[x]]

EmptyDict == <<>>

UserProfile(user_id, categories, risk_tolerance, category_weights, risk_adjustment, interest_embedding, min_volume, min_confidence, sentiment_preference) ==
    [user_id |-> user_id, categories |-> categories,
     risk_tolerance |-> risk_tolerance,
     category_weights |-> category_weights,
     risk_adjustment |-> risk_adjustment, history |-> <<>>,
     interest_embedding |-> interest_embedding, min_volume |-> min_volume,
     min_confidence |-> min_confidence,
     sentiment_preference |-> sentiment_preference,
     time_horizon |-> "balanced"]

\* The profiles the callers hold when the engine is first used.
Profiles ==
    { UserProfile("u1", <<"crypto">>, "medium", EmptyDict, 0, None, 10000, 0,
                  NoString),
      UserProfile("u2", <<"sports", "crypto">>, "safe",
                  Put(EmptyDict, "crypto", Dec(195, 100)), Dec(75, 100),
                  <<3, 4>>, 0, Dec(6, 10), "bullish"),
      UserProfile("u3", <<>>, "degen", Put(EmptyDict, "sports", 0),
                  0 - Dec(75, 100), <<2, 3>>, 0, 0, NoString) }

risk_map == [safe |-> 0 - Dec(5, 10), medium |-> 0, degen |-> Dec(5, 10)]

\* Mutant of LearnCategoryWeights: the weight is not capped at 2.0.
LearnCategoryWeightsNoCap(p, event) ==
    IF event.category # ""
    THEN LET current == Get(p.category_weights, event.category, Fix(1))
         IN  Put(p.category_weights, event.category,
                 current + Mul(Dec(1, 10), event.engagement_score))
    ELSE p.category_weights

\* Mutant of LearnCategoryWeights: a category without an entry starts at 0.
LearnCategoryWeightsDefaultZero(p, event) ==
    IF event.category # ""
    THEN LET current == Get(p.category_weights, event.category, 0)
         IN  Put(p.category_weights, event.category,
                 Min(Fix(2), current + Mul(Dec(1, 10), event.engagement_score)))
    ELSE p.category_weights

\* Mutant of LearnCategoryWeights: the bump is a flat 0.1, whatever the
\* engagement score.
LearnCategoryWeightsFlatStep(p, event) ==
    IF event.category # ""
    THEN LET current == Get(p.category_weights, event.category, Fix(1))
         IN  Put(p.category_weights, event.category,
                 Min(Fix(2), current + Dec(1, 10)))
    ELSE p.category_weights

\* Mutant of LearnCategoryWeights: a moving average, nine parts of the
\* current weight and one part of the engagement.
LearnCategoryWeightsMovingAverage(p, event) ==
    IF event.category # ""
    THEN LET current == Get(p.category_weights, event.category, Fix(1))
         IN  Put(p.category_weights, event.category,
                 Min(Fix(2), Mul(Dec(9, 10), current)
                                + Mul(Dec(1, 10), event.engagement_score)))
    ELSE p.category_weights

\* The category_weights after learn_from_interaction(event).
LearnCategoryWeights(p, event) ==
    IF event.category # ""
    THEN LET current == Get(p.category_weights, event.category, Fix(1))
         IN  Put(p.category_weights, event.category,
                 Min(Fix(2), current + Mul(Dec(1, 10), event.engagement_score)))
    ELSE p.category_weights

\* Mutant of LearnRiskAdjustment: the sum is capped at 1.0 only.
LearnRiskAdjustmentNoFloor(p, event) ==
    IF event.risk_level \in DOMAIN risk_map
    THEN LET adjustment == Mul(Mul(risk_map[event.risk_level], Dec(5, 100)),
                               event.engagement_score)
         IN  Min(Fix(1), p.risk_adjustment + adjustment)
    ELSE p.risk_adjustment

\* Mutant of LearnRiskAdjustment: the step is 0.5 instead of 0.05.
LearnRiskAdjustmentBigStep(p, event) ==
    IF event.risk_level \in DOMAIN risk_map
    THEN LET adjustment == Mul(Mul(risk_map[event.risk_level], Dec(5, 10)),
                               event.engagement_score)
         IN  Max(0 - Fix(1), Min(Fix(1), p.risk_adjustment + adjustment))
    ELSE p.risk_adjustment

\* Mutant of LearnRiskAdjustment: the sum is capped at 0.5, not 1.0.
LearnRiskAdjustmentLowCap(p, event) ==
    IF event.risk_level \in DOMAIN risk_map
    THEN LET adjustment == Mul(Mul(risk_map[event.risk_level], Dec(5, 100)),
                               event.engagement_score)
         IN  Max(0 - Fix(1), Min(Dec(5, 10), p.risk_adjustment + adjustment))
    ELSE p.risk_adjustment

\* The risk_adjustment after learn_from_interaction(event).
LearnRiskAdjustment(p, event) ==
    IF event.risk_level \in DOMAIN risk_map
    THEN LET adjustment == Mul(Mul(risk_map[event.risk_level], Dec(5, 100)),
                               event.engagement_score)
         IN  Max(0 - Fix(1), Min(Fix(1), p.risk_adjustment + adjustment))
    ELSE p.risk_adjustment

\* Mutant of Learned: the event is put in front of the history.
LearnedPrepend(p, event) ==
    [p EXCEPT !.history = <<event>> \o p.history,
              !.category_weights = LearnCategoryWeights(p, event),
              !.risk_adjustment = LearnRiskAdjustment(p, event)]

\* UserProfile.learn_from_interaction as a function on profiles.
Learned(p, event) ==
    [p EXCEPT !.history = Append(p.history, event),
              !.category_weights = LearnCategoryWeights(p, event),
              !.risk_adjustment = LearnRiskAdjustment(p, event)]

\* Mutant of EffectiveRiskTolerance: the thresholds are inclusive.
EffectiveRiskToleranceInclusive(p) ==
    LET base_value == Get(risk_map, p.risk_tolerance, 0)
        adjusted == base_value + p.risk_adjustment
    IN  IF adjusted <= 0 - Dec(25, 100) THEN "safe"
        ELSE IF adjusted >= Dec(25, 100) THEN "degen"
        ELSE "medium"

\* UserProfile.get_effective_risk_tolerance as a function on profiles.
EffectiveRiskTolerance(p) ==
    LET base_value == Get(risk_map, p.risk_tolerance, 0)
        adjusted == base_value + p.risk_adjustment
    IN  IF adjusted < 0 - Dec(25, 100) THEN "safe"
        ELSE IF adjusted > Dec(25, 100) THEN "degen"
        ELSE "medium"

(***************************************************************************)
(* Text.  A text is a TLA+ string; `keyword in text` is substring search.  *)
(***************************************************************************)
UPPER == "ABCDEFGHIJKLMNOPQRSTUVWXYZ"
LOWER == "abcdefghijklmnopqrstuvwxyz"

\* One character of str.lower().
LowerChar(c) ==
    IF \E i \in 1..Len(UPPER) : SubSeq(UPPER, i, i) = c
    THEN LET i == CHOOSE j \in 1..Len(UPPER) : SubSeq(UPPER, j, j) = c
         IN  SubSeq(LOWER, i, i)
    ELSE c

\* str.lower()
RECURSIVE Lower(_)
Lower(text) ==
    IF Len(text) = 0 THEN ""
    ELSE LowerChar(SubSeq(text, 1, 1)) \o Lower(SubSeq(text, 2, Len(text)))

\* `keyword in text`
Contains(keyword, text) ==
    \E i \in 1..(Len(text) - Len(keyword) + 1) :
        SubSeq(text, i, i + Len(keyword) - 1) = keyword

GEN_Z_CATEGORIES ==
    [politics |-> {"election", "trump", "biden", "congress", "president",
                   "vote", "democracy", "senate", "polls", "debate",
                   "campaign", "governor", "mayor", "republican", "democrat"},
     crypto |-> {"bitcoin", "ethereum", "nft", "defi", "web3", "crypto",
                 "blockchain", "btc", "eth", "solana", "binance", "coinbase",
                 "wallet", "dex", "dao", "token", "coin", "mining", "hodl",
                 "moon", "lambo"},
     tech |-> {"ai", "startup", "tesla", "apple", "meta", "google", "tech",
               "openai", "chatgpt", "robot", "drone", "space", "spacex",
               "elon", "innovation", "software", "app", "platform", "gadget",
               "iphone", "android"},
     sports |-> {"nfl", "nba", "fifa", "soccer", "football", "basketball",
                 "sports", "championship", "playoffs", "superbowl",
                 "worldcup", "olympics", "lebron", "curry", "mahomes",
                 "messi", "ronaldo", "athlete"},
     culture |-> {"music", "movie", "celebrity", "tiktok", "instagram",
                  "viral", "meme", "taylor", "drake", "beyonce", "kardashian",
                  "netflix", "spotify", "concert", "festival", "grammy",
                  "oscar", "emmy", "influencer", "cancelled", "ratio",
                  "trending"},
     finance |-> {"stock", "market", "economy", "recession", "inflation",
                  "fed", "wall street", "nasdaq", "dow", "s&p", "bull",
                  "bear", "invest", "portfolio", "nvidia", "microsoft",
                  "amazon", "tesla stock"},
     degen |-> {"meme", "yolo", "moon", "pump", "ape", "degen", "longshot",
                "underdog", "upset", "wildcard", "gamble", "bet", "risky"}]

\* The keys of GEN_Z_SLANG (its values are never read).
GEN_Z_SLANG ==
    {"ratio", "no cap", "fr", "bussin", "mid", "goat", "slay", "stan", "vibe",
     "based"}

\* RecommendationEngineV2.detect_category, computed on the text.
DetectCategory(text) ==
    LET text_lower == Lower(text)
        detected == {category \in DOMAIN GEN_Z_CATEGORIES :
                        \E keyword \in GEN_Z_CATEGORIES[category] :
                            Contains(keyword, text_lower)}
    IN  IF \E slang \in GEN_Z_SLANG : Contains(slang, text_lower)
        THEN detected \cup {"culture"}
        ELSE detected

(***************************************************************************)
(* Markets, analyses and context tokens supplied by the callers.           *)
(***************************************************************************)
Str(s) == [str |-> s]
Num(n) == [num |-> n]

\* updated_at of the markets that carry one: a Unix timestamp, in seconds
UpdatedAt == 1700000000

CatalogueList ==
    << [id |-> "m1", title |-> "Will Bitcoin hit $100K?", category |-> "Crypto",
        volume |-> 250000, liquidity |-> 150000],
       [id |-> "m2", title |-> "Ethereum ETF approved?",
        description |-> "SEC decision on the ETH fund", category |-> "Crypto",
        volume |-> 600000, liquidity |-> 60000, odds_yes |-> Dec(85, 100),
        odds_no |-> Dec(15, 100), volume_24h |-> 40000, volume_7d |-> 140000,
        traders_24h |-> 120, price_change_24h |-> 0 - Dec(8, 100),
        updated_at |-> UpdatedAt],
       [id |-> "m3", title |-> "NBA finals winner", category |-> "Sports",
        volume |-> 250000, liquidity |-> 150000],
       [id |-> "m4", title |-> "Super Bowl MVP odds",
        description |-> "NFL championship game", category |-> "Sports",
        volume |-> 5000, liquidity |-> 2000, volume_24h |-> 300,
        volume_7d |-> 2100, traders_24h |-> 60] >>

Catalogue == Range(CatalogueList)

\* analyses: {market_id: analysis}
Analyses ==
    [m1 |-> [embedding |-> <<-2, -3>>],
     m2 |-> [confidence |-> Dec(85, 100), risk_level |-> Num(4),
             sentiment |-> "Bullish", volatility |-> Dec(6, 10),
             social_buzz |-> Dec(8, 10), embedding |-> <<3, 4>>],
     m3 |-> [confidence |-> Dec(4, 10), risk_level |-> Str("Safe"),
             sentiment |-> "bearish", embedding |-> <<0, 0>>],
     m4 |-> [embedding |-> <<1, 0, 0>>, volatility |-> Dec(1, 10)]]

\* context_tokens, in the dict's insertion order
ContextTokens == << <<"NBA", Dec(8, 10)>>, <<"bitcoin", Fix(1)>> >>

\* The text f"{title} {description}" of a market.
TitleText(market) ==
    Get(market, "title", "") \o " " \o Get(market, "description", "")

\* The text f"{category} {title} {description}" of a market.
CategoryText(market) == Get(market, "category", "") \o " " \o TitleText(market)

\* detect_category on the title text of every market of the catalogue,
\* evaluated once.
DetectedTags ==
    [text \in {TitleText(m) : m \in Catalogue} |-> DetectCategory(text)]

\* RecommendationEngineV2.detect_category
detect_category(text) ==
    IF text \in DOMAIN DetectedTags THEN DetectedTags[text]
    ELSE DetectCategory(text)

\* The strings the engine lowers: market texts and categories, context
\* tokens, profile categories, sentiments and risk labels.
LoweredTexts ==
    {TitleText(m) : m \in Catalogue}
    \cup {CategoryText(m) : m \in Catalogue}
    \cup {Get(m, "category", "") : m \in Catalogue}
    \cup {ContextTokens[i][1] : i \in DOMAIN ContextTokens}
    \cup UNION {Range(p.categories) : p \in Profiles}
    \cup {p.sentiment_preference : p \in Profiles}
    \cup {"Bullish", "bearish", "neutral", "Safe", "sports", ""}

\* str.lower() of every text the engine lowers, evaluated once.
LowerMemo == [text \in LoweredTexts |-> Lower(text)]

lower(text) == IF text \in DOMAIN LowerMemo THEN LowerMemo[text] ELSE Lower(text)

\* For every lowered category text of the catalogue, the GEN_Z_CATEGORIES
\* keys with a keyword in it, evaluated once.
KeywordMemo ==
    [text \in {lower(CategoryText(m)) : m \in Catalogue} |->
        {category \in DOMAIN GEN_Z_CATEGORIES :
            \E keyword \in GEN_Z_CATEGORIES[category] : Contains(keyword, text)}]

\* `any(keyword in market_text for keyword in GEN_Z_CATEGORIES[category])`
HasKeyword(category, market_text) ==
    IF market_text \in DOMAIN KeywordMemo
    THEN category \in KeywordMemo[market_text]
    ELSE \E keyword \in GEN_Z_CATEGORIES[category] :
            Contains(keyword, market_text)

(***************************************************************************)
(* Weights.                                                                *)
(***************************************************************************)
Signals ==
    <<"semantic", "category", "risk", "trend", "volume", "confidence",
      "sentiment">>

\* Weights(): the dataclass defaults
DefaultWeights ==
    [semantic |-> Dec(30, 100), category |-> Dec(20, 100),
     risk |-> Dec(15, 100), trend |-> Dec(15, 100), volume |-> Dec(10, 100),
     confidence |-> Dec(5, 100), sentiment |-> Dec(5, 100)]

WeightTotal(w) == SumSeq([i \in DOMAIN Signals |-> w[Signals[i]]])

\* Weight vectors an engine is constructed with: the defaults, seven equal
\* weights that do not sum to 1, two non-zero weights among zeros, and all
\* zeros.
WeightVectors ==
    { DefaultWeights,
      [name \in DOMAIN DefaultWeights |-> Fix(1)],
      [name \in DOMAIN DefaultWeights |->
          IF name = "semantic" THEN Dec(5, 10)
          ELSE IF name = "volume" THEN Dec(15, 10) ELSE 0],
      [name \in DOMAIN DefaultWeights |-> 0] }

\* Mutant of normalize: the weights are divided by the largest of them.
normalizeByLargest(w) ==
    LET largest == CHOOSE x \in {w[name] : name \in DOMAIN w} :
                       \A name \in DOMAIN w : w[name] <= x
    IN  IF largest > 0 THEN [name \in DOMAIN w |-> Div(w[name], largest)]
        ELSE w

\* Weights.normalize
normalize(w) ==
    LET total == WeightTotal(w)
    IN  IF total > 0 THEN [name \in DOMAIN w |-> Div(w[name], total)] ELSE w

(***************************************************************************)
(* The signal scorers.                                                     *)
(***************************************************************************)
\* Python truthiness of an optional list, dict or profile
Truthy(x) == x # None

\* Python truthiness of an optional string
TruthyStr(x) == x # NoString

Dot(vec_a, vec_b) == SumSeq([i \in DOMAIN vec_a |-> vec_a[i] * vec_b[i]])

\* Mutant of _cosine_similarity: no length check; as zip does, the dot
\* product runs over the common prefix of the two vectors.
_cosine_similarityZip(vec_a, vec_b) ==
    LET n == Min(Len(vec_a), Len(vec_b))
        dot_product == Dot(SubSeq(vec_a, 1, n), SubSeq(vec_b, 1, n))
        norm_a == Sqrt(Dot(vec_a, vec_a))
        norm_b == Sqrt(Dot(vec_b, vec_b))
    IN  IF norm_a = 0 \/ norm_b = 0 THEN 0
        ELSE Div(Fix(dot_product), Mul(norm_a, norm_b))

_cosine_similarity(vec_a, vec_b) ==
    IF Len(vec_a) # Len(vec_b) THEN 0
    ELSE LET dot_product == Dot(vec_a, vec_b)
             norm_a == Sqrt(Dot(vec_a, vec_a))
             norm_b == Sqrt(Dot(vec_b, vec_b))
         IN  IF norm_a = 0 \/ norm_b = 0 THEN 0
             ELSE Div(Fix(dot_product), Mul(norm_a, norm_b))

\* Mutant of _score_semantic: the tag fallback has no neutral 50 for an empty
\* tag set.
_score_semanticNoNeutral(market, user_profile, analysis) ==
    IF /\ Truthy(user_profile.interest_embedding)
       /\ Truthy(analysis)
       /\ "embedding" \in DOMAIN analysis
    THEN LET similarity == _cosine_similarity(user_profile.interest_embedding,
                                              analysis.embedding)
         IN  Mul(similarity + Fix(1), Fix(50))
    ELSE LET market_tags == detect_category(TitleText(market))
             user_tags == Range(user_profile.categories)
             intersection == Cardinality(market_tags \cap user_tags)
             union == Cardinality(market_tags \cup user_tags)
             jaccard == IF union > 0 THEN Div(intersection, union) ELSE 0
         IN  Mul(jaccard, Fix(100))

_score_semantic(market, user_profile, analysis) ==
    IF /\ Truthy(user_profile.interest_embedding)
       /\ Truthy(analysis)
       /\ "embedding" \in DOMAIN analysis
    THEN LET similarity == _cosine_similarity(user_profile.interest_embedding,
                                              analysis.embedding)
         IN  Mul(similarity + Fix(1), Fix(50))
    ELSE LET market_tags == detect_category(TitleText(market))
             user_tags == Range(user_profile.categories)
         IN  IF user_tags = {} \/ market_tags = {} THEN Fix(50)
             ELSE LET intersection == Cardinality(market_tags \cap user_tags)
                      union == Cardinality(market_tags \cup user_tags)
                      jaccard == IF union > 0 THEN Div(intersection, union)
                                 ELSE 0
                  IN  Mul(jaccard, Fix(100))

\* Mutant of _score_category_match: a profile with categories none of which
\* matches gets the neutral 50.
_score_category_matchNeutralMiss(market, user_profile) ==
    LET user_categories == user_profile.categories
        market_text == lower(CategoryText(market))
        hit(i) == LET user_cat_lower == lower(user_categories[i])
                  IN  /\ user_cat_lower \in DOMAIN GEN_Z_CATEGORIES
                      /\ HasKeyword(user_cat_lower, market_text)
        matches == Cardinality({i \in DOMAIN user_categories : hit(i)})
    IN  IF matches > 0 THEN Fix(100) ELSE Fix(50)

_score_category_match(market, user_profile) ==
    LET user_categories == user_profile.categories
        market_text == lower(CategoryText(market))
        hit(i) == LET user_cat_lower == lower(user_categories[i])
                  IN  /\ user_cat_lower \in DOMAIN GEN_Z_CATEGORIES
                      /\ HasKeyword(user_cat_lower, market_text)
        weight(i) == Get(user_profile.category_weights,
                         lower(user_categories[i]), Fix(1))
        matches == Cardinality({i \in DOMAIN user_categories : hit(i)})
        weighted_matches ==
            SumSeq([i \in DOMAIN user_categories |->
                       IF hit(i) THEN weight(i) ELSE 0])
        n == Len(user_categories)
    IN  IF n = 0 THEN Fix(50)
        ELSE IF matches > 0
        THEN LET base_score == Min(Fix(100), Mul(Div(matches, n), Fix(100)))
                 weight_boost ==
                     Min(Fix(100), Mul(Div(weighted_matches, Fix(n)), Fix(100)))
             IN  Mul(base_score, Dec(5, 10)) + Mul(weight_boost, Dec(5, 10))
        ELSE 0

\* The first key of the dict risk_counts with the largest count:
\* max(risk_counts.items(), key=lambda x: x[1])[0] over the signals in the
\* order of their first occurrence.
Count(signals, sig) == Cardinality({i \in DOMAIN signals : signals[i] = sig})

MostCommon(signals) ==
    LET best == CHOOSE i \in DOMAIN signals :
                    /\ \A j \in DOMAIN signals :
                          Count(signals, signals[j]) <= Count(signals, signals[i])
                    /\ \A j \in 1..(i - 1) :
                          Count(signals, signals[j]) < Count(signals, signals[i])
    IN  signals[best]

_determine_market_risk(market, analysis) ==
    LET has(key) == Truthy(analysis) /\ key \in DOMAIN analysis
        signal1 ==
            IF has("risk_level") /\ "num" \in DOMAIN analysis.risk_level
            THEN LET risk_level == analysis.risk_level.num
                 IN  IF risk_level <= 2 THEN <<"safe">>
                     ELSE IF risk_level <= 3 THEN <<"medium">>
                     ELSE <<"degen">>
            ELSE <<>>
        odds_yes == Get(market, "odds_yes", Dec(5, 10))
        odds_no == Get(market, "odds_no", Dec(5, 10))
        odds_spread == Abs(odds_yes - odds_no)
        signal2 ==
            IF odds_spread > Dec(6, 10) THEN <<"safe">>
            ELSE IF odds_spread > Dec(3, 10) THEN <<"medium">>
            ELSE <<"degen">>
        signal3 ==
            IF has("volatility")
            THEN IF analysis.volatility < Dec(2, 10) THEN <<"safe">>
                 ELSE IF analysis.volatility < Dec(5, 10) THEN <<"medium">>
                 ELSE <<"degen">>
            ELSE <<>>
        liquidity == Get(market, "liquidity", 0)
        signal4 ==
            IF liquidity > 100000 THEN <<"safe">>
            ELSE IF liquidity > 10000 THEN <<"medium">>
            ELSE <<"degen">>
        signals == signal1 \o signal2 \o signal3 \o signal4
    IN  IF has("risk_level") /\ "str" \in DOMAIN analysis.risk_level
        THEN lower(analysis.risk_level.str)
        ELSE IF signals # <<>> THEN MostCommon(signals)
        ELSE "medium"

risk_order == [safe |-> 0, medium |-> 1, degen |-> 2]

\* The rule of V1's RecommendationEngine._score_risk_match on two buckets.
V1RiskRule(user_risk, market_risk_cat) ==
    IF user_risk = market_risk_cat THEN Fix(100)
    ELSE IF user_risk = "medium" \/ market_risk_cat = "medium" THEN Fix(60)
    ELSE Fix(20)

\* Mutant of _score_risk_match: the profile's base risk_tolerance is used,
\* without the learned adjustment.
_score_risk_matchBase(market, user_profile, analysis) ==
    LET user_risk == user_profile.risk_tolerance
        market_risk_cat == _determine_market_risk(market, analysis)
        user_idx == Get(risk_order, user_risk, 1)
        market_idx == Get(risk_order, market_risk_cat, 1)
        distance == Abs(user_idx - market_idx)
    IN  IF distance = 0 THEN Fix(100)
        ELSE IF distance = 1 THEN Fix(60)
        ELSE Fix(20)

_score_risk_match(market, user_profile, analysis) ==
    LET user_risk == EffectiveRiskTolerance(user_profile)
        market_risk_cat == _determine_market_risk(market, analysis)
        user_idx == Get(risk_order, user_risk, 1)
        market_idx == Get(risk_order, market_risk_cat, 1)
        distance == Abs(user_idx - market_idx)
    IN  IF distance = 0 THEN Fix(100)
        ELSE IF distance = 1 THEN Fix(60)
        ELSE Fix(20)

\* The weight of the first context token found in the text, times 15; 0 when
\* there are no tokens or none is found.
RECURSIVE ContextBoost(_, _)
ContextBoost(context_tokens, market_text) ==
    IF context_tokens = <<>> THEN 0
    ELSE LET token == Head(context_tokens)[1]
             weight == Head(context_tokens)[2]
         IN  IF Contains(lower(token), market_text)
             THEN Mul(weight, Fix(15))
             ELSE ContextBoost(Tail(context_tokens), market_text)

_score_trend(market, analysis, context_tokens) ==
    LET vol_24h == Get(market, "volume_24h", 0)
        vol_7d == Get(market, "volume_7d", 0)
        momentum == IF vol_7d > 0 THEN Div(vol_24h * 7, vol_7d) ELSE 0
        part1 == IF vol_7d > 0
                 THEN IF momentum > Dec(15, 10) THEN Fix(30)
                      ELSE IF momentum > Fix(1) THEN Fix(15)
                      ELSE 0
                 ELSE 0
        traders_24h == Get(market, "traders_24h", 0)
        part2 == IF traders_24h > 100 THEN Fix(20)
                 ELSE IF traders_24h > 50 THEN Fix(10)
                 ELSE 0
        price_change == Abs(Get(market, "price_change_24h", 0))
        part3 == IF price_change > Dec(15, 100) THEN Fix(20)
                 ELSE IF price_change > Dec(5, 100) THEN Fix(10)
                 ELSE 0
        part4 == IF Truthy(analysis) /\ "social_buzz" \in DOMAIN analysis
                 THEN Mul(analysis.social_buzz, Fix(15))
                 ELSE 0
        part5 == IF Truthy(context_tokens)
                 THEN ContextBoost(context_tokens, lower(TitleText(market)))
                 ELSE 0
    IN  Min(Fix(100), part1 + part2 + part3 + part4 + part5)

\* The two tier ladders of _score_volume.
VolumeTier(volume) ==
    IF volume >= 1000000 THEN Fix(100)
    ELSE IF volume >= 500000 THEN Fix(85)
    ELSE IF volume >= 100000 THEN Fix(70)
    ELSE IF volume >= 50000 THEN Fix(55)
    ELSE IF volume >= 10000 THEN Fix(40)
    ELSE Fix(25)

LiquidityTier(liquidity) ==
    IF liquidity >= 500000 THEN Fix(100)
    ELSE IF liquidity >= 100000 THEN Fix(80)
    ELSE IF liquidity >= 50000 THEN Fix(60)
    ELSE IF liquidity >= 10000 THEN Fix(40)
    ELSE Fix(20)

\* Mutant of _score_volume: min_volume is not looked at.
_score_volumeNoMinimum(market, user_profile) ==
    Mul(VolumeTier(Get(market, "volume", 0)), Dec(6, 10))
        + Mul(LiquidityTier(Get(market, "liquidity", 0)), Dec(4, 10))

\* Mutant of _score_volume: the liquidity ladder is left out.
_score_volumeTierOnly(market, user_profile) ==
    IF Get(market, "volume", 0) < user_profile.min_volume THEN 0
    ELSE VolumeTier(Get(market, "volume", 0))

_score_volume(market, user_profile) ==
    LET volume == Get(market, "volume", 0)
        liquidity == Get(market, "liquidity", 0)
        min_volume == user_profile.min_volume
        vol_score == VolumeTier(volume)
        liq_score == LiquidityTier(liquidity)
    IN  IF volume < min_volume THEN 0
        ELSE Mul(vol_score, Dec(6, 10)) + Mul(liq_score, Dec(4, 10))

_score_confidence(analysis, user_profile) ==
    LET confidence == Get(analysis, "confidence", Dec(5, 10))
        min_confidence == user_profile.min_confidence
    IN  IF confidence < min_confidence THEN 0
        ELSE Mul(confidence, Fix(100))

_score_sentiment(analysis, user_profile) ==
    LET sentiment_pref == user_profile.sentiment_preference
        market_sentiment == lower(Get(analysis, "sentiment", "neutral"))
    IN  IF ~TruthyStr(sentiment_pref) THEN Fix(50)
        ELSE IF lower(sentiment_pref) = market_sentiment THEN Fix(100)
        ELSE IF market_sentiment = "neutral" THEN Fix(60)
        ELSE Fix(30)

_build_profile_from_preferences(preferences) ==
    UserProfile("anonymous", Get(preferences, "categories", <<>>),
                Get(preferences, "risk_tolerance", "medium"), EmptyDict, 0,
                Get(preferences, "interest_embedding", None),
                Get(preferences, "min_volume", 0),
                Get(preferences, "min_confidence", 0),
                Get(preferences, "sentiment_preference", NoString))

\* The score_breakdown of score_market.
ScoreBreakdown(w, market, analysis, user_profile, context_tokens) ==
    [semantic |-> _score_semantic(market, user_profile, analysis),
     category |-> _score_category_match(market, user_profile),
     risk |-> _score_risk_match(market, user_profile, analysis),
     trend |-> _score_trend(market, analysis, context_tokens),
     volume |-> _score_volume(market, user_profile),
     confidence |-> IF Truthy(analysis)
                    THEN _score_confidence(analysis, user_profile)
                    ELSE Fix(50),
     sentiment |-> IF Truthy(analysis)
                   THEN _score_sentiment(analysis, user_profile)
                   ELSE Fix(50)]

\* Mutant of WeightedTotal: the risk term is subtracted, as a penalty.
WeightedTotalRiskPenalty(w, breakdown) ==
    SumSeq([i \in DOMAIN Signals |->
               IF Signals[i] = "risk"
               THEN 0 - Mul(breakdown[Signals[i]], w[Signals[i]])
               ELSE Mul(breakdown[Signals[i]], w[Signals[i]])])

\* Mutant of WeightedTotal: the last signal, sentiment, is left out of the
\* sum.
WeightedTotalNoSentiment(w, breakdown) ==
    SumSeq([i \in 1..(Len(Signals) - 1) |->
               Mul(breakdown[Signals[i]], w[Signals[i]])])

\* The weighted total of score_market, before the cap at 100.
WeightedTotal(w, breakdown) ==
    SumSeq([i \in DOMAIN Signals |->
               Mul(breakdown[Signals[i]], w[Signals[i]])])

\* RecommendationEngineV2.score_market: <<total, breakdown>>
ScoreMarket(w, market, user_preferences, analysis, user_profile, context_tokens) ==
    LET p == IF ~Truthy(user_profile)
             THEN _build_profile_from_preferences(user_preferences)
             ELSE user_profile
        breakdown == ScoreBreakdown(w, market, analysis, p, context_tokens)
    IN  <<Min(Fix(100), WeightedTotal(w, breakdown)), breakdown>>

(***************************************************************************)
(* Ranking.                                                                *)
(***************************************************************************)
\* {**market, "recommendation_score": ..., "score_breakdown": ...}
WithScore(market, score, breakdown) ==
    [key \in DOMAIN market \cup {"recommendation_score", "score_breakdown"} |->
        IF key = "recommendation_score" THEN score
        ELSE IF key = "score_breakdown" THEN breakdown
        ELSE market[key]]

\* Mutant of ScoredMarkets: a market below the profile's minimum volume or
\* minimum confidence is rejected instead of scored.
ScoredMarketsRejecting(w, markets, user_preferences, analyses, user_profile, context_tokens) ==
    LET all == [i \in DOMAIN markets |->
                   LET market == markets[i]
                       market_id == Get(market, "id", None)
                       analysis == IF Truthy(analyses)
                                   THEN Get(analyses, market_id, None)
                                   ELSE None
                       scored == ScoreMarket(w, market, user_preferences,
                                             analysis, user_profile,
                                             context_tokens)
                   IN  WithScore(market, Round2(scored[1]), scored[2])]
        Kept(m) == /\ m.score_breakdown.volume > 0
                   /\ m.score_breakdown.confidence > 0
    IN  SelectSeq(all, Kept)

\* The loop of rank_markets that scores every market.
ScoredMarkets(w, markets, user_preferences, analyses, user_profile, context_tokens) ==
    [i \in DOMAIN markets |->
        LET market == markets[i]
            market_id == Get(market, "id", None)
            analysis == IF Truthy(analyses) THEN Get(analyses, market_id, None)
                        ELSE None
            scored == ScoreMarket(w, market, user_preferences, analysis,
                                  user_profile, context_tokens)
        IN  WithScore(market, Round2(scored[1]), scored[2])]

\* list.insert(pos, x) for 1 <= pos <= Len(s) + 1
InsertAt(s, pos, x) == SubSeq(s, 1, pos - 1) \o <<x>> \o SubSeq(s, pos, Len(s))

\* Mutant of SortByKeyDesc: reverse=True is missing, the sort is ascending.
RECURSIVE SortByKeyAsc(_, _)
SortByKeyAsc(s, key) ==
    IF s = <<>> THEN <<>>
    ELSE LET front == SortByKeyAsc(SubSeq(s, 1, Len(s) - 1), key)
             x == s[Len(s)]
             ahead == Cardinality({i \in DOMAIN front : front[i][key] <= x[key]})
         IN  InsertAt(front, ahead + 1, x)

\* list.sort(key=..., reverse=True): stable, descending by key.  An item goes
\* behind every item whose key is greater than or equal to its own.
RECURSIVE SortByKeyDesc(_, _)
SortByKeyDesc(s, key) ==
    IF s = <<>> THEN <<>>
    ELSE LET front == SortByKeyDesc(SubSeq(s, 1, Len(s) - 1), key)
             x == s[Len(s)]
             ahead == Cardinality({i \in DOMAIN front : front[i][key] >= x[key]})
         IN  InsertAt(front, ahead + 1, x)

\* s[:k]
Prefix(s, k) ==
    IF k >= 0 THEN SubSeq(s, 1, Min(k, Len(s)))
    ELSE SubSeq(s, 1, Max(0, Len(s) + k))

\* list.pop(idx) for 1 <= idx <= Len(s): the list that is left
Pop(s, idx) == SubSeq(s, 1, idx - 1) \o SubSeq(s, idx + 1, Len(s))

_market_similarity(market_a, market_b) ==
    LET cat_a == lower(Get(market_a, "category", ""))
        cat_b == lower(Get(market_b, "category", ""))
        cat_match == IF cat_a = cat_b THEN Fix(1) ELSE 0
        tags_a == detect_category(TitleText(market_a))
        tags_b == detect_category(TitleText(market_b))
        jaccard == IF tags_a # {} /\ tags_b # {}
                   THEN Div(Cardinality(tags_a \cap tags_b),
                            Cardinality(tags_a \cup tags_b))
                   ELSE 0
    IN  Mul(cat_match, Dec(5, 10)) + Mul(jaccard, Dec(5, 10))

\* max_similarity of a candidate to the selected markets (0.0 when none)
RECURSIVE MaxSimilarity(_, _)
MaxSimilarity(candidate, selected) ==
    IF selected = <<>> THEN 0
    ELSE Max(MaxSimilarity(candidate, SubSeq(selected, 1, Len(selected) - 1)),
             _market_similarity(candidate, selected[Len(selected)]))

\* Mutant of MmrScore: the two weights are swapped.
MmrScoreSwapped(candidate, selected, lambda_param) ==
    LET relevance == Div(candidate.recommendation_score, Fix(100))
    IN  Mul(Fix(1) - lambda_param, relevance)
        - Mul(lambda_param, MaxSimilarity(candidate, selected))

\* lambda_param * relevance - (1 - lambda_param) * max_similarity
MmrScore(candidate, selected, lambda_param) ==
    LET relevance == Div(candidate.recommendation_score, Fix(100))
    IN  Mul(lambda_param, relevance)
        - Mul(Fix(1) - lambda_param, MaxSimilarity(candidate, selected))

\* best_idx of one pass over `remaining`: the first index whose mmr_score is
\* strictly greater than that of every index before it and not smaller than
\* that of any index after it.
BestIdx(remaining, selected, lambda_param) ==
    CHOOSE idx \in DOMAIN remaining :
        /\ \A j \in DOMAIN remaining :
              MmrScore(remaining[j], selected, lambda_param)
                  <= MmrScore(remaining[idx], selected, lambda_param)
        /\ \A j \in 1..(idx - 1) :
              MmrScore(remaining[j], selected, lambda_param)
                  < MmrScore(remaining[idx], selected, lambda_param)

\* The while loop of _apply_mmr.
RECURSIVE MmrLoop(_, _, _, _)
MmrLoop(selected, remaining, k, lambda_param) ==
    IF Len(selected) < k /\ remaining # <<>>
    THEN LET best_idx == BestIdx(remaining, selected, lambda_param)
         IN  MmrLoop(Append(selected, remaining[best_idx]),
                     Pop(remaining, best_idx), k, lambda_param)
    ELSE selected

\* remaining.pop(0) of _apply_mmr raises IndexError on an empty list.
ApplyMmrRaises(scored_markets, k) ==
    Len(scored_markets) > k /\ scored_markets = <<>>

\* RecommendationEngineV2._apply_mmr (where it does not raise)
ApplyMmr(scored_markets, k, lambda_param) ==
    IF Len(scored_markets) <= k THEN scored_markets
    ELSE MmrLoop(<<scored_markets[1]>>, Pop(scored_markets, 1), k, lambda_param)

\* rank_markets up to and including the sort: the scored markets, sorted by
\* descending recommendation_score.
SortedScoredMarkets(w, markets, user_preferences, analyses, user_profile, context_tokens) ==
    LET p == IF ~Truthy(user_profile)
             THEN _build_profile_from_preferences(user_preferences)
             ELSE user_profile
    IN  SortByKeyDesc(ScoredMarkets(w, markets, user_preferences, analyses, p,
                                    context_tokens),
                      "recommendation_score")

\* rank_markets after the sort: MMR or the plain top k.
RankSelect(scored_markets, k, diversity_lambda) ==
    IF diversity_lambda < Fix(1) /\ Len(scored_markets) > k
    THEN ApplyMmr(scored_markets, k, diversity_lambda)
    ELSE Prefix(scored_markets, k)

RankSelectRaises(scored_markets, k, diversity_lambda) ==
    /\ diversity_lambda < Fix(1)
    /\ Len(scored_markets) > k
    /\ ApplyMmrRaises(scored_markets, k)

(***************************************************************************)
(* Trending.                                                               *)
(***************************************************************************)
\* math.exp(-hours_old / 24) for the ages the model's clock produces: whole
\* days.  exp(0) = 1, exp(-1) = 0.3679, exp(-2) = 0.1353 to four decimals.
ExpMinusDays == <<Fix(1), Dec(3679, 10000), Dec(1353, 10000)>>

\* The recency factor of a market updated at `updated_at`, seen at `now`.
RecencyFactor(updated_at, now) ==
    ExpMinusDays[((now - updated_at) \div 86400) + 1]

\* (1 + weight) of the first context token found in the text; 1 when none is.
RECURSIVE ContextFactor(_, _)
ContextFactor(context_tokens, market_text) ==
    IF context_tokens = <<>> THEN Fix(1)
    ELSE LET token == Head(context_tokens)[1]
             weight == Head(context_tokens)[2]
         IN  IF Contains(lower(token), market_text) THEN Fix(1) + weight
             ELSE ContextFactor(Tail(context_tokens), market_text)

\* Mutant of TrendScore: the recency boost multiplies by the decay factor
\* itself, not by one plus it.
TrendScoreDecay(market, context_tokens, now) ==
    LET volume == Get(market, "volume", 0)
        liquidity == Get(market, "liquidity", 0)
        base_score == 100 * volume + Mul(100 * liquidity, Dec(5, 10))
        vol_24h == Get(market, "volume_24h", 0)
        vol_7d == Get(market, "volume_7d", 0)
        boosted1 == IF vol_7d > 0
                    THEN Mul(base_score, Max(Fix(1), Div(vol_24h * 7, vol_7d)))
                    ELSE base_score
        boosted2 == IF "updated_at" \in DOMAIN market
                    THEN Mul(boosted1, RecencyFactor(market.updated_at, now))
                    ELSE boosted1
    IN  IF Truthy(context_tokens)
        THEN Mul(boosted2,
                 ContextFactor(context_tokens, lower(TitleText(market))))
        ELSE boosted2

\* trend_score of one market, in hundredths (a dollar amount with two
\* decimals): volume + liquidity * 0.5, times the boosts.
TrendScore(market, context_tokens, now) ==
    LET volume == Get(market, "volume", 0)
        liquidity == Get(market, "liquidity", 0)
        base_score == 100 * volume + Mul(100 * liquidity, Dec(5, 10))
        vol_24h == Get(market, "volume_24h", 0)
        vol_7d == Get(market, "volume_7d", 0)
        boosted1 == IF vol_7d > 0
                    THEN Mul(base_score, Max(Fix(1), Div(vol_24h * 7, vol_7d)))
                    ELSE base_score
        boosted2 == IF "updated_at" \in DOMAIN market
                    THEN Mul(boosted1,
                             Fix(1) + RecencyFactor(market.updated_at, now))
                    ELSE boosted1
    IN  IF Truthy(context_tokens)
        THEN Mul(boosted2,
                 ContextFactor(context_tokens, lower(TitleText(market))))
        ELSE boosted2

\* {**market, "trend_score": base_score}
WithTrendScore(market, score) ==
    [key \in DOMAIN market \cup {"trend_score"} |->
        IF key = "trend_score" THEN score ELSE market[key]]

\* RecommendationEngineV2.get_trending_markets
GetTrendingMarkets(markets, limit, context_tokens, now) ==
    LET scored == [i \in DOMAIN markets |->
                      WithTrendScore(markets[i],
                                     TrendScore(markets[i], context_tokens, now))]
    IN  Prefix(SortByKeyDesc(scored, "trend_score"), limit)

(***************************************************************************)
(* The calls the callers make.                                             *)
(***************************************************************************)
\* most markets in one candidate list
MaxPool == 3
\* the largest k and limit asked for
MaxK == 3
\* k is an int: the smallest k asked for is -MinusK
MinusK == 1

\* Candidate lists: the markets of the catalogue, each at most once, in any
\* order.
Pools ==
    UNION {{pool \in [1..n -> Catalogue] :
               \A i, j \in 1..n : i # j => pool[i] # pool[j]} :
           n \in 0..MaxPool}

Ks == (0 - MinusK)..MaxK

\* diversity_lambda: maximum diversity, the default 0.7, pure relevance
Lambdas == {0, Dec(7, 10), Fix(1)}

\* Legacy preferences dict, used when no UserProfile is passed.
Preferences ==
    [categories |-> <<"sports">>, risk_tolerance |-> "degen", min_volume |-> 0]

\* The optional arguments of one ranking request: enrichment, viral context
\* and whether a UserProfile is passed.
Requests ==
    { [analyses |-> None, context_tokens |-> None, with_profile |-> TRUE],
      [analyses |-> Analyses, context_tokens |-> ContextTokens,
       with_profile |-> TRUE],
      [analyses |-> Analyses, context_tokens |-> None, with_profile |-> FALSE] }

\* The times at which get_trending_markets reads the clock: the moment of
\* UpdatedAt, one day and two days later.
Clock == {UpdatedAt, UpdatedAt + 86400, UpdatedAt + 2 * 86400}

\* A few whole requests, for the runs that interleave ranking with learning.
SamplePools ==
    {<<>>, CatalogueList,
     [i \in DOMAIN CatalogueList |->
         CatalogueList[Len(CatalogueList) + 1 - i]]}

SampleKs == {0, 2}

NoCall == [op |-> "none"]

\* What a call leaves behind: its arguments, and its return value or the
\* exception it raised.
Returned(op, args, result) ==
    [op |-> op, args |-> args, raised |-> "", ret |-> result]

Raised(op, args, exception) ==
    [op |-> op, args |-> args, raised |-> exception, ret |-> None]

learn_from_interaction ==
    /\ pc = "idle"
    /\ Len(profile.history) < MaxHistory
    /\ \E event \in Events :
          /\ profile' = Learned(profile, event)
          /\ call' = Returned("learn_from_interaction", [event |-> event], None)
    /\ pc' = "returned"
    /\ UNCHANGED weights

get_effective_risk_tolerance ==
    /\ pc = "idle"
    /\ call' = Returned("get_effective_risk_tolerance", None,
                        EffectiveRiskTolerance(profile))
    /\ pc' = "returned"
    /\ UNCHANGED <<profile, weights>>

\* Mutant of score_market: scoring an item also learns its category into the
\* profile's category_weights.
score_marketLearning ==
    /\ pc = "idle"
    /\ \E market \in Catalogue, req \in Requests :
          LET analysis == IF Truthy(req.analyses)
                          THEN Get(req.analyses, market.id, None)
                          ELSE None
              user_profile == IF req.with_profile THEN profile ELSE None
          IN  /\ call' = Returned("score_market",
                                  [market |-> market, analysis |-> analysis,
                                   context_tokens |-> req.context_tokens,
                                   with_profile |-> req.with_profile],
                                  ScoreMarket(weights, market, Preferences,
                                              analysis, user_profile,
                                              req.context_tokens))
              /\ profile' = [profile EXCEPT !.category_weights =
                                Put(profile.category_weights,
                                    lower(market.category), Fix(2))]
    /\ pc' = "returned"
    /\ UNCHANGED weights

score_market ==
    /\ pc = "idle"
    /\ \E market \in Catalogue, req \in Requests :
          LET analysis == IF Truthy(req.analyses)
                          THEN Get(req.analyses, market.id, None)
                          ELSE None
              user_profile == IF req.with_profile THEN profile ELSE None
          IN  call' = Returned("score_market",
                               [market |-> market, analysis |-> analysis,
                                context_tokens |-> req.context_tokens,
                                with_profile |-> req.with_profile],
                               ScoreMarket(weights, market, Preferences,
                                           analysis, user_profile,
                                           req.context_tokens))
    /\ pc' = "returned"
    /\ UNCHANGED <<profile, weights>>

rank_markets(pools, ks) ==
    /\ pc = "idle"
    /\ \E markets \in pools, req \in Requests, k \in ks,
          diversity_lambda \in Lambdas :
          \E scored_markets \in
                {SortedScoredMarkets(weights, markets, Preferences,
                                     req.analyses,
                                     IF req.with_profile THEN profile ELSE None,
                                     req.context_tokens)} :
             LET args == [markets |-> markets, k |-> k,
                          diversity_lambda |-> diversity_lambda,
                          analyses |-> req.analyses,
                          context_tokens |-> req.context_tokens,
                          with_profile |-> req.with_profile]
             IN  call' = IF RankSelectRaises(scored_markets, k,
                                             diversity_lambda)
                         THEN Raised("rank_markets", args, "IndexError")
                         ELSE Returned("rank_markets", args,
                                       RankSelect(scored_markets, k,
                                                  diversity_lambda))
    /\ pc' = "returned"
    /\ UNCHANGED <<profile, weights>>

\* _apply_mmr run directly on a relevance-sorted scored list.
_apply_mmr(pools, ks) ==
    /\ pc = "idle"
    /\ \E markets \in pools, k \in ks, lambda_param \in Lambdas :
          \E scored_markets \in
                {SortedScoredMarkets(weights, markets, Preferences, None,
                                     profile, None)} :
             LET args == [scored_markets |-> scored_markets, k |-> k,
                          lambda_param |-> lambda_param]
             IN  call' = IF ApplyMmrRaises(scored_markets, k)
                         THEN Raised("_apply_mmr", args, "IndexError")
                         ELSE Returned("_apply_mmr", args,
                                       ApplyMmr(scored_markets, k, lambda_param))
    /\ pc' = "returned"
    /\ UNCHANGED <<profile, weights>>

get_trending_markets(pools, limits) ==
    /\ pc = "idle"
    /\ \E markets \in pools, limit \in limits,
          context_tokens \in {None, ContextTokens}, now \in Clock :
          call' = Returned("get_trending_markets",
                           [markets |-> markets, limit |-> limit,
                            context_tokens |-> context_tokens, now |-> now],
                           GetTrendingMarkets(markets, limit, context_tokens,
                                              now))
    /\ pc' = "returned"
    /\ UNCHANGED <<profile, weights>>

\* detect_category called directly on the text of a market.
DetectCategoryCall ==
    /\ pc = "idle"
    /\ \E market \in Catalogue :
          call' = Returned("detect_category", [text |-> TitleText(market)],
                           detect_category(TitleText(market)))
    /\ pc' = "returned"
    /\ UNCHANGED <<profile, weights>>

\* The caller takes the return value of the last call.
TakeResult ==
    /\ pc = "returned"
    /\ pc' = "idle"
    /\ call' = NoCall
    /\ UNCHANGED <<profile, weights>>

\* Enrichment records for the risk signals: none; a numeric level alone;
\* a numeric level with a volatility; labels, alone and with a volatility.
RiskAnalyses ==
    { None,
      [risk_level |-> Num(1)],
      [risk_level |-> Num(3), volatility |-> Dec(3, 10)],
      [risk_level |-> Num(5), volatility |-> Dec(9, 10)],
      [volatility |-> Dec(1, 10)],
      [risk_level |-> Str("Safe")],
      [risk_level |-> Str("medium"), volatility |-> Dec(1, 10)],
      [risk_level |-> Str("degen"), volatility |-> Dec(1, 10)] }

\* Embedding vectors: parallel, antiparallel and skew pairs, a zero vector,
\* a vector of another length and the empty vector.
Embeddings ==
    { <<3, 4>>, <<4, 3>>, <<2, 3>>, <<-2, -3>>, <<0, 0>>, <<1, 0, 0>>, <<>> }

\* _determine_market_risk called on a market and an enrichment record.
DetermineMarketRiskCall ==
    /\ pc = "idle"
    /\ \E market \in Catalogue, analysis \in RiskAnalyses :
          call' = Returned("_determine_market_risk",
                           [market |-> market, analysis |-> analysis],
                           _determine_market_risk(market, analysis))
    /\ pc' = "returned"
    /\ UNCHANGED <<profile, weights>>

\* _score_risk_match called for the caller's profile.
ScoreRiskMatchCall ==
    /\ pc = "idle"
    /\ \E market \in Catalogue, analysis \in RiskAnalyses :
          call' = Returned("_score_risk_match",
                           [market |-> market, analysis |-> analysis],
                           _score_risk_match(market, profile, analysis))
    /\ pc' = "returned"
    /\ UNCHANGED <<profile, weights>>

\* _cosine_similarity called on two vectors.
CosineSimilarityCall ==
    /\ pc = "idle"
    /\ \E vec_a \in Embeddings, vec_b \in Embeddings :
          call' = Returned("_cosine_similarity",
                           [vec_a |-> vec_a, vec_b |-> vec_b],
                           _cosine_similarity(vec_a, vec_b))
    /\ pc' = "returned"
    /\ UNCHANGED <<profile, weights>>

\* RecommendationEngineV2.__init__: an engine is constructed with the given
\* Weights and takes the place of the one in use.
__init__ ==
    /\ pc = "idle"
    /\ \E w \in WeightVectors :
          /\ weights' = normalize(w)
          /\ call' = Returned("__init__", [weights |-> w], None)
    /\ pc' = "returned"
    /\ UNCHANGED profile

\* The module's engine, RecommendationEngineV2() with the default Weights(),
\* and a profile.
Init ==
    /\ profile \in Profiles
    /\ weights = normalize(DefaultWeights)
    /\ pc = "idle"
    /\ call = NoCall

\* Learning interleaved with scoring, ranking and trending requests.
Next ==
    \/ learn_from_interaction
    \/ get_effective_risk_tolerance
    \/ score_market
    \/ rank_markets(SamplePools, SampleKs)
    \/ _apply_mmr(SamplePools, SampleKs)
    \/ get_trending_markets(SamplePools, SampleKs)
    \/ DetectCategoryCall
    \/ TakeResult

Spec == Init /\ [][Next]_vars

\* Ranking requests against a profile that is not learning meanwhile.
NextRank ==
    \/ rank_markets(Pools, Ks)
    \/ _apply_mmr(Pools, Ks)
    \/ TakeResult

SpecRank == Init /\ [][NextRank]_vars

\* The learning update and the effective risk tolerance.
NextLearn ==
    \/ learn_from_interaction
    \/ get_effective_risk_tolerance
    \/ TakeResult

SpecLearn == Init /\ [][NextLearn]_vars

\* Engines built with their own weights, scoring for a profile that learns.
NextScore ==
    \/ __init__
    \/ learn_from_interaction
    \/ score_market
    \/ TakeResult

SpecScore == Init /\ [][NextScore]_vars

\* The signal scorers called one by one, and through score_market, for a
\* profile that learns.
NextSignals ==
    \/ learn_from_interaction
    \/ DetermineMarketRiskCall
    \/ ScoreRiskMatchCall
    \/ CosineSimilarityCall
    \/ score_market
    \/ TakeResult

SpecSignals == Init /\ [][NextSignals]_vars

(***************************************************************************)
(* A profile that keeps learning 'degen' interactions.                     *)
(***************************************************************************)
\* most 'degen' events one profile learns
MaxDrift == 4
\* most events of another risk level learned in between
MaxOther == 1

\* The 'degen' interactions, of positive engagement.
DegenEvents ==
    { UserHistoryEvent("m1", "click", "crypto", "degen", Fix(20)),
      UserHistoryEvent("m2", "bet", "crypto", "degen", Fix(40)) }

\* Interactions that are neither 'degen' nor 'safe'.
OtherEvents ==
    { UserHistoryEvent("m1", "view", "", "medium", Fix(1)),
      UserHistoryEvent("m2", "view", "crypto", "yolo", Dec(5, 10)) }

\* The starting profiles: those of the callers, and one as far from 'degen'
\* as a profile can be.
DriftProfiles ==
    Profiles \cup
       { UserProfile("u4", <<>>, "safe", EmptyDict, 0 - Fix(1), None, 0, 0,
                     NoString) }

InitDrift ==
    /\ profile \in DriftProfiles
    /\ weights = normalize(DefaultWeights)
    /\ pc = "idle"
    /\ call = NoCall

\* learn_from_interaction on an event of `events`, while the profile has
\* learned fewer than `bound` of them.
LearnFrom(events, bound) ==
    /\ pc = "idle"
    /\ Cardinality({i \in DOMAIN profile.history :
                       profile.history[i] \in events}) < bound
    /\ \E event \in events :
          /\ profile' = Learned(profile, event)
          /\ call' = Returned("learn_from_interaction", [event |-> event], None)
    /\ pc' = "returned"
    /\ UNCHANGED weights

NextDrift ==
    \/ LearnFrom(DegenEvents, MaxDrift)
    \/ LearnFrom(OtherEvents, MaxOther)
    \/ get_effective_risk_tolerance
    \/ TakeResult

\* Every call returns to its caller, and 'degen' interactions keep being
\* learned for as long as there are any.
SpecDrift ==
    /\ InitDrift
    /\ [][NextDrift]_vars
    /\ WF_vars(TakeResult)
    /\ SF_vars(LearnFrom(DegenEvents, MaxDrift))

\* Trending lists asked for over every candidate list and every limit.
NextTrending ==
    \/ get_trending_markets(Pools, Ks)
    \/ TakeResult

SpecTrending == Init /\ [][NextTrending]_vars

(***************************************************************************)
(* Properties.                                                             *)
(***************************************************************************)
\* A re-ranking call (rank_markets or _apply_mmr) has returned.
Reranked ==
    /\ pc = "returned"
    /\ call.op \in {"rank_markets", "_apply_mmr"}
    /\ call.raised = ""

\* The candidate pool of the re-ranking call.
CallPool ==
    IF call.op = "rank_markets" THEN call.args.markets
    ELSE call.args.scored_markets

\* The diversity_lambda / lambda_param of the re-ranking call.
CallLambda ==
    IF call.op = "rank_markets" THEN call.args.diversity_lambda
    ELSE call.args.lambda_param

Ids(markets) == [i \in DOMAIN markets |-> markets[i].id]

NoDuplicates(s) == \A i, j \in DOMAIN s : i # j => s[i] # s[j]

\* The relevance-sorted scored list the re-ranking call selects from.
CallSorted ==
    IF call.op = "rank_markets"
    THEN SortedScoredMarkets(weights, call.args.markets, Preferences,
                             call.args.analyses,
                             IF call.args.with_profile THEN profile ELSE None,
                             call.args.context_tokens)
    ELSE call.args.scored_markets

\* C1: for every candidate pool, every k >= 0 and every diversity_lambda, the
\* re-ranking returns exactly min(k, pool size) items, no item twice.
C1_CountAndNoDuplicates ==
    (Reranked /\ call.args.k >= 0) =>
        /\ Len(call.ret) = Min(call.args.k, Len(CallPool))
        /\ NoDuplicates(Ids(call.ret))

\* C2: with lambda = 1.0 and 0 <= k <= pool size, the re-ranking (through
\* rank_markets, and _apply_mmr run directly) returns exactly the first k
\* items of the relevance-sorted list, in the same order.
C2_LambdaOneIsTopK ==
    (/\ Reranked
     /\ CallLambda = Fix(1)
     /\ call.args.k >= 0
     /\ call.args.k <= Len(CallPool)) =>
        call.ret = SubSeq(CallSorted, 1, call.args.k)

\* C3: when k >= pool size, the re-ranking returns every candidate exactly
\* once, ordered by descending recommendation_score, whatever lambda is.
C3_FullPoolSorted ==
    (Reranked /\ call.args.k >= Len(CallPool)) =>
        /\ Len(call.ret) = Len(CallPool)
        /\ Range(Ids(call.ret)) = Range(Ids(CallPool))
        /\ NoDuplicates(Ids(call.ret))
        /\ \A i, j \in DOMAIN call.ret :
              i < j => call.ret[i].recommendation_score
                          >= call.ret[j].recommendation_score

\* C3 witness: rank_markets with lambda < 1 and k = pool size = 3 reordered
\* its candidates.
C3_Witness ==
    /\ Reranked
    /\ call.op = "rank_markets"
    /\ call.args.diversity_lambda < Fix(1)
    /\ Len(call.args.markets) = 3
    /\ call.args.k = 3
    /\ Len(call.ret) = 3
    /\ Ids(call.ret) # Ids(call.args.markets)
    /\ call.ret[1].recommendation_score > call.ret[3].recommendation_score

\* C4: rank_markets on an empty candidate list returns an empty list and
\* raises no error, for any profile, enrichment, context, k and lambda.
C4_EmptyPoolEmptyResult ==
    (/\ pc = "returned"
     /\ call.op = "rank_markets"
     /\ call.args.markets = <<>>) =>
        /\ call.raised = ""
        /\ call.ret = <<>>

\* A learn_from_interaction call is the step being taken.
LearnStep ==
    pc = "idle" /\ pc' = "returned" /\ call'.op = "learn_from_interaction"

\* The last event learned.
LastEvent == profile.history[Len(profile.history)]

\* C5: after any sequence of learn_from_interaction calls (any risk level,
\* any engagement score, negative ones included) risk_adjustment is in
\* [-1, 1].
C5_RiskAdjustmentBounded ==
    /\ profile.risk_adjustment >= 0 - Fix(1)
    /\ profile.risk_adjustment <= Fix(1)

\* C5 witness: a 'safe' event of engagement 40 would take the risk_adjustment
\* of profile u3 from -0.75 to -1.75; it sits on the lower clamp instead.
C5_Witness ==
    /\ profile.user_id = "u3"
    /\ Len(profile.history) = 1
    /\ LastEvent.risk_level = "safe"
    /\ LastEvent.engagement_score = Fix(40)
    /\ profile.risk_adjustment = 0 - Fix(1)

\* C6: after any sequence of learn_from_interaction calls whose events have
\* engagement_score >= 0, every category_weights entry is in [0, 2].
C6_CategoryWeightsBounded ==
    (\A i \in DOMAIN profile.history :
        profile.history[i].engagement_score >= 0) =>
        \A c \in DOMAIN profile.category_weights :
            /\ profile.category_weights[c] >= 0
            /\ profile.category_weights[c] <= Fix(2)

\* C6 witness: profile u2 (crypto at 1.95) learned a crypto event of
\* engagement 1.0 and its weight was capped at 2.0.
C6_Witness ==
    /\ profile.user_id = "u2"
    /\ Len(profile.history) = 1
    /\ LastEvent.category = "crypto"
    /\ LastEvent.engagement_score = Fix(1)
    /\ profile.category_weights["crypto"] = Fix(2)

\* C7: the history is an append-only log.  A learn_from_interaction call
\* appends exactly its event at the end; every other step (score_market,
\* rank_markets, _apply_mmr, get_trending_markets,
\* get_effective_risk_tolerance, taking a result) leaves the history as it
\* was.
C7_HistoryAppendOnly ==
    [][IF LearnStep
       THEN profile'.history = Append(profile.history, call'.args.event)
       ELSE profile'.history = profile.history]_vars

\* C7 witness: two different events were learned, and a ranking call has run
\* since: the history holds them in call order.
C7_Witness ==
    /\ Len(profile.history) = 2
    /\ profile.history[1].risk_level = "degen"
    /\ profile.history[2].risk_level = "safe"
    /\ pc = "returned"
    /\ call.op = "rank_markets"
    /\ Len(call.ret) = 2

\* C8: learn_from_interaction with a non-empty event.category sets
\* category_weights[event.category] to min(2.0, previous + 0.1 *
\* engagement_score), previous being 1.0 for a category without an entry;
\* every other weight is unchanged; an event with an empty category changes
\* no weight.
C8_CategoryWeightUpdate ==
    [][LearnStep =>
        LET event == call'.args.event
            before == profile.category_weights
            after == profile'.category_weights
            previous == IF event.category \in DOMAIN before
                        THEN before[event.category] ELSE 10000
            bumped == previous + (event.engagement_score \div 10)
        IN  IF event.category # ""
            THEN /\ DOMAIN after = DOMAIN before \cup {event.category}
                 /\ after[event.category]
                        = (IF bumped < 20000 THEN bumped ELSE 20000)
                 /\ \A c \in DOMAIN before \ {event.category} :
                        after[c] = before[c]
            ELSE after = before]_vars

\* C8 witness: profile u1 had no weights; a crypto event of engagement 1.0
\* left crypto at 1.1.
C8_Witness ==
    /\ profile.user_id = "u1"
    /\ Len(profile.history) = 1
    /\ LastEvent.category = "crypto"
    /\ LastEvent.engagement_score = Fix(1)
    /\ DOMAIN profile.category_weights = {"crypto"}
    /\ profile.category_weights["crypto"] = 11000

\* C9: learn_from_interaction sets risk_adjustment to clamp(previous +
\* risk_map[risk_level] * 0.05 * engagement_score, -1, 1) with risk_map =
\* {safe: -0.5, medium: 0, degen: +0.5}; a 'medium' event and an event with
\* another label leave it unchanged.
C9_RiskAdjustmentUpdate ==
    [][LearnStep =>
        LET event == call'.args.event
            before == profile.risk_adjustment
            after == profile'.risk_adjustment
            \* 0.5 * 0.05 * engagement_score = engagement_score / 40
            step == event.engagement_score \div 40
            moved == IF event.risk_level = "safe" THEN before - step
                     ELSE IF event.risk_level = "degen" THEN before + step
                     ELSE before
        IN  after = (IF moved > 10000 THEN 10000
                     ELSE IF moved < -10000 THEN -10000
                     ELSE moved)]_vars

\* C9 witness: profile u1 (risk_adjustment 0) learned a 'yolo' event, which
\* left it at 0, and then a 'degen' event of engagement 1.0, which moved it
\* to 0.025.
C9_Witness ==
    /\ profile.user_id = "u1"
    /\ Len(profile.history) = 2
    /\ profile.history[1].risk_level = "yolo"
    /\ profile.history[2].risk_level = "degen"
    /\ profile.history[2].engagement_score = Fix(1)
    /\ profile.risk_adjustment = 250

\* A get_effective_risk_tolerance call is the step being taken.
EffectiveStep ==
    /\ pc = "idle"
    /\ pc' = "returned"
    /\ call'.op = "get_effective_risk_tolerance"

\* C10: get_effective_risk_tolerance returns 'safe' when base_value +
\* risk_adjustment < -0.25, 'degen' when it is > 0.25 and 'medium' otherwise
\* (at exactly -0.25 and +0.25 too), base values being safe -0.5, medium 0,
\* degen +0.5; the call leaves the profile as it was.
C10_EffectiveRiskTolerance ==
    [][EffectiveStep =>
        LET base_value == IF profile.risk_tolerance = "safe" THEN -5000
                          ELSE IF profile.risk_tolerance = "degen" THEN 5000
                          ELSE 0
            adjusted == base_value + profile.risk_adjustment
        IN  /\ profile' = profile
            /\ call'.ret = (IF adjusted < -2500 THEN "safe"
                            ELSE IF adjusted > 2500 THEN "degen"
                            ELSE "medium")]_vars

\* C10 witness: profile u3 (degen, risk_adjustment -0.75) is exactly at
\* -0.25 and is told 'medium'.
C10_Witness ==
    /\ pc = "returned"
    /\ call.op = "get_effective_risk_tolerance"
    /\ profile.risk_tolerance = "degen"
    /\ profile.risk_adjustment = -7500
    /\ call.ret = "medium"

\* The profile a user started from, before any learning.
InitialProfile == CHOOSE p \in Profiles : p.user_id = profile.user_id

\* C11: two learn events of engagement e/2 each on one category leave the
\* same category_weights entry as one event of engagement e on the starting
\* profile, whenever that entry stays below the 2.0 clamp.
C11_EngagementAccumulates ==
    (/\ Len(profile.history) = 2
     /\ profile.history[1].category = profile.history[2].category
     /\ profile.history[1].category # ""
     /\ profile.history[1].engagement_score
            = profile.history[2].engagement_score) =>
        LET half == profile.history[1]
            whole == [half EXCEPT
                         !.engagement_score = 2 * half.engagement_score]
            once == LearnCategoryWeights(InitialProfile, whole)
        IN  once[half.category] < Fix(2) =>
                profile.category_weights[half.category] = once[half.category]

\* C11 witness: profile u1 learned two crypto events of engagement 1.0 each
\* and crypto stands at 1.2, where one event of engagement 2.0 puts it.
C11_Witness ==
    /\ profile.user_id = "u1"
    /\ Len(profile.history) = 2
    /\ profile.history[1].category = "crypto"
    /\ profile.history[2].category = "crypto"
    /\ profile.history[1].engagement_score = Fix(1)
    /\ profile.history[2].engagement_score = Fix(1)
    /\ profile.category_weights["crypto"] = 12000

\* An engine has just been constructed with the Weights in call.args.
Constructed == pc = "returned" /\ call.op = "__init__"

\* The sum of the seven weights of the engine in use.
EngineWeightSum ==
    weights.semantic + weights.category + weights.risk + weights.trend
        + weights.volume + weights.confidence + weights.sentiment

\* C12: for seven non-negative weights with at least one positive, after the
\* constructor's normalize the weights sum to 1 (within one unit of the last
\* decimal per weight) and keep their mutual proportions.
C12_NormalizedSumsToOne ==
    (/\ Constructed
     /\ \A name \in DOMAIN call.args.weights : call.args.weights[name] >= 0
     /\ \E name \in DOMAIN call.args.weights : call.args.weights[name] > 0) =>
        /\ DOMAIN weights = DOMAIN call.args.weights
        /\ Abs(EngineWeightSum - 10000) <= 7
        /\ \A a, b \in DOMAIN weights :
              Abs(weights[a] * call.args.weights[b]
                      - weights[b] * call.args.weights[a])
                  <= Max(call.args.weights[a], call.args.weights[b])

\* C12 witness: an engine built with semantic 0.5, volume 1.5 and zeros
\* elsewhere has semantic 0.25 and volume 0.75.
C12_Witness ==
    /\ Constructed
    /\ call.args.weights.semantic = 5000
    /\ call.args.weights.volume = 15000
    /\ weights.semantic = 2500
    /\ weights.volume = 7500
    /\ weights.risk = 0

\* C13: when all seven weights are zero, normalization does not fail and
\* puts 1/7 in each weight, so that the engine's weights sum to 1.
C13_ZeroWeightsEqualSplit ==
    (/\ Constructed
     /\ \A name \in DOMAIN call.args.weights : call.args.weights[name] = 0) =>
        /\ call.raised = ""
        /\ \A name \in DOMAIN weights : weights[name] = 10000 \div 7
        /\ Abs(EngineWeightSum - 10000) <= 7

\* A score_market call has returned <<total, breakdown>>.
Scored == pc = "returned" /\ call.op = "score_market"

\* The profile the score_market call scored for: the caller's, or the one
\* built from the legacy preferences.
ScoredFor ==
    IF call.args.with_profile THEN profile
    ELSE _build_profile_from_preferences(Preferences)

\* C14: the total of score_market is min(100, sum over the seven signals of
\* sub-score * normalized weight), and the breakdown holds exactly the seven
\* signal names with the sub-scores that entered the sum.
C14_TotalIsWeightedSum ==
    Scored =>
        LET total == call.ret[1]
            b == call.ret[2]
            market == call.args.market
            analysis == call.args.analysis
            sum == Mul(b.semantic, weights.semantic)
                     + Mul(b.category, weights.category)
                     + Mul(b.risk, weights.risk)
                     + Mul(b.trend, weights.trend)
                     + Mul(b.volume, weights.volume)
                     + Mul(b.confidence, weights.confidence)
                     + Mul(b.sentiment, weights.sentiment)
        IN  /\ DOMAIN b = {"semantic", "category", "risk", "trend", "volume",
                           "confidence", "sentiment"}
            /\ total = (IF sum < 1000000 THEN sum ELSE 1000000)
            /\ b.semantic = _score_semantic(market, ScoredFor, analysis)
            /\ b.category = _score_category_match(market, ScoredFor)
            /\ b.risk = _score_risk_match(market, ScoredFor, analysis)
            /\ b.trend = _score_trend(market, analysis,
                                      call.args.context_tokens)
            /\ b.volume = _score_volume(market, ScoredFor)
            /\ b.confidence = (IF analysis # None
                               THEN _score_confidence(analysis, ScoredFor)
                               ELSE 500000)
            /\ b.sentiment = (IF analysis # None
                              THEN _score_sentiment(analysis, ScoredFor)
                              ELSE 500000)

\* C14 witness: m2 scored with its enrichment by an engine with the default
\* weights for profile u2: every weight counts, the sentiment matches, and
\* the total is strictly between the smallest and the largest sub-score.
C14_Witness ==
    /\ Scored
    /\ call.args.market.id = "m2"
    /\ call.args.analysis # None
    /\ call.args.with_profile
    /\ profile.user_id = "u2"
    /\ weights.sentiment = 500
    /\ call.ret[2].sentiment = 1000000
    /\ call.ret[2].confidence = 850000
    /\ call.ret[1] > 0
    /\ call.ret[1] < 1000000

\* C15: for every well-formed item, every profile reachable by learning,
\* every enrichment with fields in their documented ranges and every context
\* map, each of the seven sub-scores and the total lie in [0, 100].
C15_ScoresInRange ==
    Scored =>
        /\ call.ret[1] >= 0
        /\ call.ret[1] <= 1000000
        /\ \A name \in DOMAIN call.ret[2] :
              /\ call.ret[2][name] >= 0
              /\ call.ret[2][name] <= 1000000

\* Sub-score values between which a signal is moved.
SubScoreLevels == {0, 1, 333333, 500000, 1000000}

\* C16: the aggregate total is monotonic non-decreasing in each sub-score,
\* the other six sub-scores and the weights held fixed.
C16_AggregateMonotonic ==
    Scored =>
        \A name \in DOMAIN call.ret[2] :
            \A low, high \in SubScoreLevels :
                low <= high =>
                    LET lower_b == [call.ret[2] EXCEPT ![name] = low]
                        higher_b == [call.ret[2] EXCEPT ![name] = high]
                        lower_total == WeightedTotal(weights, lower_b)
                        higher_total == WeightedTotal(weights, higher_b)
                    IN  (IF lower_total < 1000000 THEN lower_total
                         ELSE 1000000)
                            <= (IF higher_total < 1000000 THEN higher_total
                                ELSE 1000000)

\* C16 witness: a score_market return under weights that count risk, where
\* moving the risk sub-score from 0 to 100 moves the total up.
C16_Witness ==
    /\ Scored
    /\ weights.risk > 0
    /\ WeightedTotal(weights, [call.ret[2] EXCEPT !.risk = 0])
          < WeightedTotal(weights, [call.ret[2] EXCEPT !.risk = 1000000])

\* C17: the volume scorer returns exactly 0 for every item whose volume is
\* below the profile's min_volume.
C17_BelowMinVolumeIsZero ==
    (/\ Scored
     /\ (IF "volume" \in DOMAIN call.args.market
         THEN call.args.market.volume ELSE 0) < ScoredFor.min_volume) =>
        call.ret[2].volume = 0

\* C17 witness: m4 (volume 5000) scored for profile u1 (min_volume 10000).
C17_Witness ==
    /\ Scored
    /\ call.args.with_profile
    /\ profile.user_id = "u1"
    /\ call.args.market.id = "m4"
    /\ call.args.market.volume = 5000
    /\ profile.min_volume = 10000
    /\ call.ret[2].volume = 0

\* A rank_markets call has returned.
Ranked == pc = "returned" /\ call.op = "rank_markets" /\ call.raised = ""

\* The profile the rank_markets call ranked for.
RankedFor ==
    IF call.args.with_profile THEN profile
    ELSE _build_profile_from_preferences(Preferences)

\* The enrichment rank_markets passes on for a market.
RankedAnalysis(market) ==
    IF call.args.analyses # None /\ market.id \in DOMAIN call.args.analyses
    THEN call.args.analyses[market.id]
    ELSE None

\* The market is below the minimum volume of the profile ranked for.
BelowMinVolume(market) == market.volume < RankedFor.min_volume

\* The market's enrichment is below the minimum confidence of the profile.
BelowMinConfidence(market) ==
    /\ RankedAnalysis(market) # None
    /\ (IF "confidence" \in DOMAIN RankedAnalysis(market)
        THEN RankedAnalysis(market).confidence ELSE 5000)
           < RankedFor.min_confidence

\* C18: threshold rejection is local to one signal.  An item below
\* min_volume or below min_confidence gets sub-score 0 for that signal, its
\* other sub-scores are what they are for the same profile without
\* minimums, and with k >= pool size the item is in rank_markets' output
\* with a score.
C18_ThresholdIsLocal ==
    (Ranked /\ call.args.k >= Len(call.args.markets)) =>
        \A i \in DOMAIN call.args.markets :
            LET market == call.args.markets[i]
                lenient == [RankedFor EXCEPT !.min_volume = 0,
                                             !.min_confidence = 0]
                met == ScoreBreakdown(weights, market, RankedAnalysis(market),
                                      lenient, call.args.context_tokens)
            IN  (BelowMinVolume(market) \/ BelowMinConfidence(market)) =>
                    \E j \in DOMAIN call.ret :
                        LET b == call.ret[j].score_breakdown
                        IN  /\ call.ret[j].id = market.id
                            /\ "recommendation_score" \in DOMAIN call.ret[j]
                            /\ BelowMinVolume(market) => b.volume = 0
                            /\ BelowMinConfidence(market) => b.confidence = 0
                            /\ \A name \in DOMAIN b :
                                  \/ name = "volume" /\ BelowMinVolume(market)
                                  \/ /\ name = "confidence"
                                     /\ BelowMinConfidence(market)
                                  \/ b[name] = met[name]

\* C18 witness: profile u2 (min_confidence 0.6) ranks m3 (confidence 0.4)
\* and m2 with k = 2: m3 is returned with confidence 0 and a positive score.
C18_Witness ==
    /\ Ranked
    /\ call.args.with_profile
    /\ call.args.analyses # None
    /\ profile.user_id = "u2"
    /\ Len(call.args.markets) = 2
    /\ call.args.k = 2
    /\ \E j \in DOMAIN call.ret :
          /\ call.ret[j].id = "m3"
          /\ call.ret[j].score_breakdown.confidence = 0
          /\ call.ret[j].score_breakdown.volume > 0
          /\ call.ret[j].recommendation_score > 0

\* C19: the category scorer returns exactly 0 when the profile has at least
\* one category and no profile category has a keyword in the item's
\* category/title/description text, and exactly 50 when the profile has no
\* categories.
C19_CategoryMissAndNeutral ==
    Scored =>
        LET categories == ScoredFor.categories
            market_text == lower(CategoryText(call.args.market))
            matched(i) ==
                /\ lower(categories[i]) \in DOMAIN GEN_Z_CATEGORIES
                /\ \E keyword \in GEN_Z_CATEGORIES[lower(categories[i])] :
                      Contains(keyword, market_text)
        IN  /\ categories = <<>> => call.ret[2].category = 500000
            /\ (categories # <<>> /\ \A i \in DOMAIN categories : ~matched(i))
                  => call.ret[2].category = 0

\* C19 witness: m3, a sports market, scored for profile u1, whose only
\* category is crypto.
C19_Witness ==
    /\ Scored
    /\ call.args.with_profile
    /\ profile.categories = <<"crypto">>
    /\ call.args.market.id = "m3"
    /\ call.ret[2].category = 0

\* The scenario call: the item {title 'Will Bitcoin hit $100K?', volume
\* 250000, liquidity 150000} scored without enrichment for the profile
\* {categories ['crypto'], risk_tolerance 'medium', min_volume 10000}.
ScenarioScored ==
    /\ Scored
    /\ call.args.market.title = "Will Bitcoin hit $100K?"
    /\ call.args.market.volume = 250000
    /\ call.args.market.liquidity = 150000
    /\ call.args.analysis = None
    /\ call.args.with_profile
    /\ profile.categories = <<"crypto">>
    /\ profile.risk_tolerance = "medium"
    /\ profile.min_volume = 10000

\* C20 as stated: in the scenario the volume sub-score is exactly 70.0.
C20_ScenarioVolumeIs70 == ScenarioScored => call.ret[2].volume = 700000

\* C20: in the scenario the volume sub-score is exactly 74.0: 0.6 times the
\* volume tier 70 plus 0.4 times the liquidity tier 80.
C20_ScenarioVolumeIs74 == ScenarioScored => call.ret[2].volume = 740000

\* C20 witness: the scenario call has returned with volume sub-score 74.0.
C20_Witness == ScenarioScored /\ call.ret[2].volume = 740000

\* A _determine_market_risk call has returned.
BucketReturned == pc = "returned" /\ call.op = "_determine_market_risk"

\* The risk votes the claim counts for a market and its enrichment, in the
\* order they are cast: the enrichment's risk level (numeric 1-2 safe, 3
\* medium, 4-5 degen, or its label), the odds spread, the volatility, the
\* liquidity tier.
RiskVotes(market, analysis) ==
    LET present(key) == analysis # None /\ key \in DOMAIN analysis
        level ==
            IF ~present("risk_level") THEN <<>>
            ELSE IF "str" \in DOMAIN analysis.risk_level
            THEN <<lower(analysis.risk_level.str)>>
            ELSE IF analysis.risk_level.num <= 2 THEN <<"safe">>
            ELSE IF analysis.risk_level.num <= 3 THEN <<"medium">>
            ELSE <<"degen">>
        yes == IF "odds_yes" \in DOMAIN market THEN market.odds_yes ELSE 5000
        no == IF "odds_no" \in DOMAIN market THEN market.odds_no ELSE 5000
        spread == IF yes >= no THEN yes - no ELSE no - yes
        odds == IF spread > 6000 THEN <<"safe">>
                ELSE IF spread > 3000 THEN <<"medium">>
                ELSE <<"degen">>
        volatility ==
            IF ~present("volatility") THEN <<>>
            ELSE IF analysis.volatility < 2000 THEN <<"safe">>
            ELSE IF analysis.volatility < 5000 THEN <<"medium">>
            ELSE <<"degen">>
        liquidity == IF "liquidity" \in DOMAIN market THEN market.liquidity
                     ELSE 0
        tier == IF liquidity > 100000 THEN <<"safe">>
                ELSE IF liquidity > 10000 THEN <<"medium">>
                ELSE <<"degen">>
    IN  level \o odds \o volatility \o tier

\* bucket has the most votes, and of the buckets with as many it was cast
\* first.
WinsVote(bucket, votes) ==
    LET count(b) == Cardinality({i \in DOMAIN votes : votes[i] = b})
        first(b) == CHOOSE i \in DOMAIN votes :
                        votes[i] = b /\ \A j \in 1..(i - 1) : votes[j] # b
    IN  /\ \E i \in DOMAIN votes : votes[i] = bucket
        /\ \A i \in DOMAIN votes :
              \/ count(votes[i]) < count(bucket)
              \/ count(votes[i]) = count(bucket) /\ first(bucket) <= i

\* C21: the item's risk bucket is the majority vote over the signals that
\* are present, the first-cast bucket winning on equal counts; an item with
\* no enrichment, default odds and liquidity 150000 is bucketed 'degen' and
\* scores risk 60.0 for a medium user.
C21_BucketIsMajorityVote ==
    /\ BucketReturned =>
          /\ WinsVote(call.ret, RiskVotes(call.args.market, call.args.analysis))
          /\ (/\ call.args.analysis = None
              /\ "odds_yes" \notin DOMAIN call.args.market
              /\ call.args.market.liquidity = 150000) => call.ret = "degen"
    /\ (/\ pc = "returned"
        /\ call.op = "_score_risk_match"
        /\ call.args.analysis = None
        /\ "odds_yes" \notin DOMAIN call.args.market
        /\ call.args.market.liquidity = 150000
        /\ profile.risk_tolerance = "medium"
        /\ profile.risk_adjustment = 0) => call.ret = 600000

\* A _score_risk_match call has returned.
RiskScored == pc = "returned" /\ call.op = "_score_risk_match"

\* The effective risk tolerance of the caller's profile: the base value plus
\* the learned adjustment, cut at -0.25 and +0.25.
EffectiveBucket ==
    LET base_value == IF profile.risk_tolerance = "safe" THEN -5000
                      ELSE IF profile.risk_tolerance = "degen" THEN 5000
                      ELSE 0
        adjusted == base_value + profile.risk_adjustment
    IN  IF adjusted < -2500 THEN "safe"
        ELSE IF adjusted > 2500 THEN "degen"
        ELSE "medium"

\* The risk bucket of the market of the call.
CallBucket == _determine_market_risk(call.args.market, call.args.analysis)

\* C22: the risk sub-score is 100 when the item's bucket equals the user's
\* effective risk tolerance, 60 when exactly one of the two is 'medium' and
\* 20 otherwise, and that is the value of V1's rule on the same two buckets.
C22_RiskScoreByDistance ==
    RiskScored =>
        /\ call.ret = (IF EffectiveBucket = CallBucket THEN 1000000
                       ELSE IF (EffectiveBucket = "medium")
                                   # (CallBucket = "medium")
                       THEN 600000
                       ELSE 200000)
        /\ call.ret = V1RiskRule(EffectiveBucket, CallBucket)

\* C22 witness: profile u3, whose base tolerance is 'degen', has learned a
\* 'safe' event and is effectively 'safe'; a 'safe' item scores 100 for it.
C22_Witness ==
    /\ RiskScored
    /\ profile.risk_tolerance = "degen"
    /\ EffectiveBucket = "safe"
    /\ CallBucket = "safe"
    /\ call.ret = 1000000

\* The profile embedding and the item embedding of the scored call both exist.
BothEmbeddings ==
    /\ ScoredFor.interest_embedding # <<>>
    /\ call.args.analysis # None
    /\ "embedding" \in DOMAIN call.args.analysis

\* (cosine + 1) * 50 for the two embeddings of the scored call.
CosineScore ==
    (_cosine_similarity(ScoredFor.interest_embedding,
                        call.args.analysis.embedding) + ONE) * 50

\* The tags detected in the scored item's text, and the profile's categories.
ItemTags == detect_category(TitleText(call.args.market))
ProfileTags == Range(ScoredFor.categories)

\* 100 times the Jaccard overlap of the two tag sets of the scored call.
JaccardScore ==
    IF ItemTags \cup ProfileTags = {} THEN 0
    ELSE ((Cardinality(ItemTags \cap ProfileTags) * ONE)
             \div Cardinality(ItemTags \cup ProfileTags)) * 100

\* C23 as stated: the semantic sub-score is (cosine + 1) * 50 when both
\* embeddings exist, and 100 times the Jaccard overlap of the item's detected
\* tags and the profile's categories otherwise.
C23_SemanticCosineOrJaccard ==
    Scored =>
        call.ret[2].semantic = (IF BothEmbeddings THEN CosineScore
                                ELSE JaccardScore)

\* C23, amended: the semantic sub-score is (cosine + 1) * 50 when both
\* embeddings exist; otherwise it is the neutral 50 when the profile has no
\* categories or the item has no detected tag, and 100 times the Jaccard
\* overlap of the two tag sets when both are non-empty.
C23_SemanticCosineOrJaccardOrNeutral ==
    Scored =>
        call.ret[2].semantic =
            (IF BothEmbeddings THEN CosineScore
             ELSE IF ProfileTags = {} \/ ItemTags = {} THEN 50 * ONE
             ELSE JaccardScore)

\* C23 witness: without embeddings, a profile without categories is scored
\* on an item with detected tags and gets the neutral 50, where the Jaccard
\* overlap is 0.
C23_Witness ==
    /\ Scored
    /\ ~BothEmbeddings
    /\ ProfileTags = {}
    /\ ItemTags # {}
    /\ JaccardScore = 0
    /\ call.ret[2].semantic = 50 * ONE

\* A _cosine_similarity call has returned or raised.
CosineCalled == pc = "returned" /\ call.op = "_cosine_similarity"

\* A vector of zero norm: every component is 0.
ZeroNorm(vec) == \A i \in DOMAIN vec : vec[i] = 0

\* Two vectors that have no cosine: different lengths, or one of zero norm.
Malformed(vec_a, vec_b) ==
    Len(vec_a) # Len(vec_b) \/ ZeroNorm(vec_a) \/ ZeroNorm(vec_b)

\* C24: _cosine_similarity never raises, returns exactly 0.0 when the vectors
\* differ in length or one has zero norm, and is symmetric in its arguments;
\* an item whose embedding is malformed for the profile's gets the semantic
\* sub-score 50 and its score_market call returns.
C24_CosineFailsSoft ==
    /\ CosineCalled =>
          /\ call.raised = ""
          /\ Malformed(call.args.vec_a, call.args.vec_b) => call.ret = 0
          /\ call.ret = _cosine_similarity(call.args.vec_b, call.args.vec_a)
    /\ (/\ Scored
        /\ BothEmbeddings
        /\ Malformed(ScoredFor.interest_embedding,
                     call.args.analysis.embedding)) =>
          /\ call.raised = ""
          /\ call.ret[2].semantic = 50 * ONE

\* C24 witness: the cosine of (3, 4) and (1, 0, 0), of different lengths,
\* has returned 0.0.
C24_Witness ==
    /\ CosineCalled
    /\ call.args.vec_a = <<3, 4>>
    /\ call.args.vec_b = <<1, 0, 0>>
    /\ call.raised = ""
    /\ call.ret = 0

\* The read-only operations of the engine.
PureOps ==
    {"score_market", "rank_markets", "get_trending_markets", "detect_category"}

\* The profile a call with the argument with_profile runs for.
ProfileArg(args) == IF args.with_profile THEN profile ELSE None

\* The outcome of the call (op, args) run alone on the current profile and
\* the current weights.
Alone(op, args) ==
    IF op = "score_market"
    THEN Returned(op, args,
                  ScoreMarket(weights, args.market, Preferences, args.analysis,
                              ProfileArg(args), args.context_tokens))
    ELSE IF op = "rank_markets"
    THEN LET scored_markets ==
                 SortedScoredMarkets(weights, args.markets, Preferences,
                                     args.analyses, ProfileArg(args),
                                     args.context_tokens)
         IN  IF RankSelectRaises(scored_markets, args.k, args.diversity_lambda)
             THEN Raised(op, args, "IndexError")
             ELSE Returned(op, args,
                           RankSelect(scored_markets, args.k,
                                      args.diversity_lambda))
    ELSE IF op = "get_trending_markets"
    THEN Returned(op, args,
                  GetTrendingMarkets(args.markets, args.limit,
                                     args.context_tokens, args.now))
    ELSE Returned(op, args, detect_category(args.text))

\* The items and the enrichment a call was given are the caller's records.
CallerRecordsIntact(op, args) ==
    /\ op = "score_market" =>
          /\ args.market \in Catalogue
          /\ args.analysis \in {None} \cup Range(Analyses)
    /\ op = "rank_markets" =>
          /\ Range(args.markets) \subseteq Catalogue
          /\ args.analyses \in {None, Analyses}
    /\ op = "get_trending_markets" => Range(args.markets) \subseteq Catalogue

Trended == pc = "returned" /\ call.op = "get_trending_markets"

\* The record `scored` is the item `market` with a trend_score attached.
IsItemWithTrendScore(scored, market) ==
    /\ DOMAIN scored = DOMAIN market \cup {"trend_score"}
    /\ \A key \in DOMAIN market : scored[key] = market[key]

\* volume + 0.5 * liquidity of an item, in hundredths.
TrendBase(market) == 100 * market.volume + 50 * market.liquidity

\* C26: for limit >= 0, get_trending_markets returns min(limit, number of
\* items) items, each a distinct input item with a trend_score attached, in
\* descending order of trend_score and none scoring less than an item left
\* out; no trend_score is below volume + 0.5 * liquidity.
C26_TrendingTopByScore ==
    (Trended /\ call.args.limit >= 0) =>
        LET markets == call.args.markets
            ret == call.ret
        IN  /\ call.raised = ""
            /\ Len(ret) = Min(call.args.limit, Len(markets))
            /\ NoDuplicates(ret)
            /\ \A i \in DOMAIN ret :
                  /\ \E j \in DOMAIN markets :
                        IsItemWithTrendScore(ret[i], markets[j])
                  /\ ret[i].trend_score >= TrendBase(ret[i])
                  /\ \A j \in DOMAIN ret :
                        i < j => ret[i].trend_score >= ret[j].trend_score
                  /\ \A j \in DOMAIN markets :
                        markets[j].id \notin Range(Ids(ret)) =>
                           ret[i].trend_score >=
                              TrendScore(markets[j], call.args.context_tokens,
                                         call.args.now)

\* C26 witness: of three items, two are returned for limit 2; the first is
\* m2, boosted above its base by momentum and recency, ahead of an item with
\* a strictly lower trend_score.
C26_Witness ==
    /\ Trended
    /\ Len(call.args.markets) = 3
    /\ call.args.limit = 2
    /\ Len(call.ret) = 2
    /\ call.ret[1].id = "m2"
    /\ call.ret[1].trend_score > TrendBase(call.ret[1])
    /\ call.ret[1].trend_score > call.ret[2].trend_score

\* The items of the relevance-sorted list not yet selected, in its order.
StillRemaining(sorted, selected) ==
    SelectSeq(sorted,
              LAMBDA m : \A i \in DOMAIN selected : selected[i].id # m.id)

\* The i-th returned item maximizes the MMR score over the items remaining
\* after the first i - 1, the earliest of the maximal ones being taken.
GreedyAt(ret, sorted, i, lambda_param) ==
    LET selected == SubSeq(ret, 1, i - 1)
        remaining == StillRemaining(sorted, selected)
    IN  \E idx \in DOMAIN remaining :
           /\ remaining[idx] = ret[i]
           /\ \A j \in DOMAIN remaining :
                 MmrScore(remaining[j], selected, lambda_param)
                    <= MmrScore(ret[i], selected, lambda_param)
           /\ \A j \in 1..(idx - 1) :
                 MmrScore(remaining[j], selected, lambda_param)
                    < MmrScore(ret[i], selected, lambda_param)

\* C27: when 0 <= k < pool size, so that a selection is made, it is the
\* greedy MMR selection: the first selected item is the head of the
\* relevance-sorted list, every later one maximizes lambda * score/100 -
\* (1 - lambda) * max similarity to the items selected before it over the
\* items still remaining, the earliest winning ties, and the selection stops
\* at k items.
C27_MmrIsGreedy ==
    (Reranked /\ call.args.k >= 0 /\ call.args.k < Len(CallSorted)) =>
        /\ Len(call.ret) = call.args.k
        /\ Len(call.ret) >= 1 => call.ret[1] = CallSorted[1]
        /\ \A i \in 2..Len(call.ret) :
              GreedyAt(call.ret, CallSorted, i, CallLambda)

\* The relevance-sorted list with other scores in the same order: the i-th
\* of n items scores n - i.
Rescored(sorted) ==
    [i \in DOMAIN sorted |->
        [sorted[i] EXCEPT !.recommendation_score = Fix(Len(sorted) - i)]]

\* The i-th returned item is one of the remaining items least similar to the
\* items returned before it.
MostDiverseAt(ret, sorted, i) ==
    LET selected == SubSeq(ret, 1, i - 1)
        remaining == StillRemaining(sorted, selected)
    IN  /\ \E idx \in DOMAIN remaining : remaining[idx] = ret[i]
        /\ \A j \in DOMAIN remaining :
              MaxSimilarity(ret[i], selected)
                 <= MaxSimilarity(remaining[j], selected)

RECURSIVE LearnedAll(_, _)
LearnedAll(p, events) ==
    IF events = <<>> THEN p
    ELSE LearnedAll(Learned(p, Head(events)), Tail(events))

\* The orders in which n events can be applied.
Orders(n) == {f \in [1..n -> 1..n] : \A i, j \in 1..n : i # j => f[i] # f[j]}

\* Every event the profile has learned has engagement_score >= 0.
NonNegativeHistory ==
    \A i \in DOMAIN profile.history : profile.history[i].engagement_score >= 0

Effective == EffectiveRiskTolerance(profile)

====
